---------------------------- MODULE Spec2Model ----------------------------
(***************************************************************************)
(* The two MACD strategies of notebooks/strategies/macd.py                 *)
(* (MACDStrategy and MACDEnhancedStrategy) as a state machine, together    *)
(* with the execution layer they talk to.                                  *)
(*                                                                         *)
(* Units.  MACD values and entry_threshold are integers in units of 1e-6   *)
(* (0.00005 is 50).  Prices are integers in units of 1e-6 (1.10000 is      *)
(* 1100000, one pip 0.0001 is 100).  Quantities are in units of the base   *)
(* currency (trade_size is 1000000).                                       *)
(*                                                                         *)
(* The strategy is called back one handler at a time.  What it submits     *)
(* (orders, cancels, close requests) is appended to `inflight`; the        *)
(* execution layer takes the commands in order, and a fill that opens or   *)
(* closes a position calls on_event in the same step.  Price updates may   *)
(* arrive while commands are still in flight.                              *)
(***************************************************************************)
EXTENDS Integers, Sequences, FiniteSets

VARIABLES
    variant,               \* "simple" (MACDStrategy) or "enhanced" (MACDEnhancedStrategy)
    config,                \* the configuration the strategy was constructed with
    state,                 \* "READY" (constructed), "RUNNING", "STOPPED", or "FAILED" (not constructed)
    macd_count,            \* number of quotes the indicator has handled (capped at CountCap)
    macd_value,            \* self.macd.value
    position,              \* self.position: None or the cached position [id, side]
    last_macd_above_zero,  \* MACDStrategy.last_macd_above_zero: "None", "True" or "False"
    last_macd_sign,        \* MACDEnhancedStrategy.last_macd_sign: 0, 1 or -1
    last_call,             \* the handler that ran last, with what it was given
    out,                   \* the outbound requests that handler issued, in order
    inflight,              \* commands submitted and not yet processed by the execution layer
    resting,               \* accepted stop / limit orders working at the venue
    venue,                 \* the venue's position for the instrument: [id, side, quantity]
    script_pos,            \* scripted run: how many values of the script have been delivered
    log                    \* scripted run: the requests of each scripted price update

vars == <<variant, config, state, macd_count, macd_value, position, last_macd_above_zero,
          last_macd_sign, last_call, out, inflight, resting, venue, script_pos, log>>

\* Python's None, for a field that holds a position ...
None == [id |-> 0, side |-> "NONE"]

\* ... for the venue's position ...
NoVenuePosition == [id |-> 0, side |-> "NONE", quantity |-> 0]

\* ... and for last_macd_above_zero, which is None, True or False
NoReading == "None"

PyBool(b) == IF b THEN "True" ELSE "False"

----------------------------------------------------------------------------
(* Configuration: MACDConfig / MACDEnhancedConfig defaults.                 *)

\* the defaults of the fields the model lets vary
default_config == [fast_period |-> 12, slow_period |-> 26, stop_loss_pips |-> 20]

fast_period == config.fast_period
slow_period == config.slow_period
trade_size == 1000000
entry_threshold == 50
stop_loss_pips == config.stop_loss_pips
take_profit_pips == 40
pip_value == 100

----------------------------------------------------------------------------
(* Bounds of the model.                                                     *)

MaxInflight == 3     \* commands in flight at once
MaxLots == 2         \* venue position size, in multiples of trade_size
MaxPositionId == 2   \* position ids the execution layer hands out

MacdValues == {-60, -10, 0, 10, 60}
EntryPrices == {1100000, 1250000}
PositionIds == 1..MaxPositionId

\* configurations tried at construction
FastPeriods == {12, 26}
StopLossPips == {-20, 0, 20}

----------------------------------------------------------------------------
(* Outbound requests.                                                       *)

Request(kind, side, quantity, price, position_id) ==
    [kind |-> kind, side |-> side, quantity |-> quantity, price |-> price,
     position_id |-> position_id]

\* order_factory.market(instrument_id, order_side, quantity) + submit_order
market(order_side, quantity) == Request("MARKET", order_side, quantity, 0, 0)

\* order_factory.stop_market(..., trigger_price) + submit_order
stop_market(order_side, quantity, trigger_price) ==
    Request("STOP_MARKET", order_side, quantity, trigger_price, 0)

\* order_factory.limit(..., price) + submit_order
limit(order_side, quantity, price) == Request("LIMIT", order_side, quantity, price, 0)

\* self.cancel_all_orders(instrument_id)
cancel_all_orders == Request("CANCEL_ALL", "NONE", 0, 0, 0)

\* self.close_all_positions(instrument_id): a close for the position that
\* is open when it is called
close_all_positions == Request("CLOSE_ALL_POSITIONS", "NONE", 0, 0, venue.id)

\* self.subscribe_quote_ticks / self.unsubscribe_quote_ticks
subscribe_quote_ticks == Request("SUBSCRIBE", "NONE", 0, 0, 0)
unsubscribe_quote_ticks == Request("UNSUBSCRIBE", "NONE", 0, 0, 0)

\* self.close_position(position)
close_position(p) == Request("CLOSE_POSITION", "NONE", 0, 0, p.id)

Abs(x) == IF x < 0 THEN -x ELSE x

----------------------------------------------------------------------------
(* Python float arithmetic.  Prices reach place_exit_orders as floats and   *)
(* leave it through f"{...:.5f}".  A decimal is written in price units; a   *)
(* float is kept exactly, as sign, significand and binary place.            *)

\* 1.0 in price units
One == 1000000

\* Natural numbers too large for one machine integer are numerals in base
\* 2^LimbBits, most significant limb first (<<>> is 0).
LimbBits == 10
Base == 2^LimbBits

Front(b) == SubSeq(b, 1, Len(b) - 1)
Zeros(n) == [i \in 1..n |-> 0]
Pad(b, n) == Zeros(n - Len(b)) \o b

RECURSIVE Strip(_)
Strip(b) == IF b = <<>> \/ b[1] # 0 THEN b ELSE Strip(Tail(b))

RECURSIVE Num(_)
Num(n) == IF n = 0 THEN <<>> ELSE Append(Num(n \div Base), n % Base)

RECURSIVE NumInt(_)
NumInt(b) == IF b = <<>> THEN 0 ELSE Base * NumInt(Front(b)) + b[Len(b)]

\* number of bits of a numeral without leading zeros
BitLen(b) ==
    IF b = <<>> THEN 0
    ELSE LimbBits * (Len(b) - 1)
         + (CHOOSE j \in 1..LimbBits : 2^(j - 1) <= b[1] /\ b[1] < 2^j)

\* b * p + carry, for an integer 0 <= p < 2^20
RECURSIVE MulSmall(_, _, _)
MulSmall(b, p, carry) ==
    IF b = <<>> THEN Num(carry)
    ELSE LET t == b[Len(b)] * p + carry
         IN  Append(MulSmall(Front(b), p, t \div Base), t % Base)

\* quotient q and remainder r of b by an integer 0 < d < 2^20
RECURSIVE DivSmall(_, _)
DivSmall(b, d) ==
    IF b = <<>> THEN [q |-> <<>>, r |-> 0]
    ELSE LET h == DivSmall(Front(b), d)
             t == h.r * Base + b[Len(b)]
         IN  [q |-> Append(h.q, t \div d), r |-> t % d]

\* a + b + carry and a - b - borrow (a >= b), for numerals of equal length
RECURSIVE AddNum(_, _, _)
AddNum(a, b, carry) ==
    IF a = <<>> THEN Num(carry)
    ELSE LET t == a[Len(a)] + b[Len(b)] + carry
         IN  Append(AddNum(Front(a), Front(b), t \div Base), t % Base)

RECURSIVE SubNum(_, _, _)
SubNum(a, b, borrow) ==
    IF a = <<>> THEN <<>>
    ELSE LET t == a[Len(a)] - b[Len(b)] - borrow
         IN  Append(SubNum(Front(a), Front(b), IF t < 0 THEN 1 ELSE 0), t % Base)

RECURSIVE LessNum(_, _)
LessNum(a, b) ==
    /\ a # <<>>
    /\ \/ a[1] < b[1]
       \/ a[1] = b[1] /\ LessNum(Tail(a), Tail(b))

\* the same for numerals of any length
Widen(a, b) == Pad(a, IF Len(a) > Len(b) THEN Len(a) ELSE Len(b))
Add(a, b) == AddNum(Widen(a, b), Widen(b, a), 0)
Sub(a, b) == SubNum(Widen(a, b), Widen(b, a), 0)
Less(a, b) == LessNum(Widen(a, b), Widen(b, a))

\* b * 2^s
Shl(b, s) == MulSmall(b, 2^(s % LimbBits), 0) \o Zeros(s \div LimbBits)

\* floor(b / 2^s), and whether the division is exact
Shr(b, s) ==
    LET w == s \div LimbBits
        d == DivSmall(IF Len(b) > w THEN SubSeq(b, 1, Len(b) - w) ELSE <<>>,
                      2^(s % LimbBits))
    IN  [q |-> Strip(d.q),
         exact |-> d.r = 0 /\ \A i \in 1..Len(b) : i > Len(b) - w => b[i] = 0]

\* the integer nearest to (b + tail) / 2^s, ties to even, for s >= 1;
\* 0 <= tail < 1, and sticky says tail > 0.  h is b shifted by s - 1.
Nearest(h, sticky) ==
    LET d == DivSmall(h.q, 2)
        odd == d.q # <<>> /\ d.q[Len(d.q)] % 2 = 1
        up == d.r = 1 /\ (sticky \/ ~h.exact \/ odd)
    IN  Strip(IF up THEN MulSmall(d.q, 1, 1) ELSE d.q)

RoundShift(b, s, sticky) == Nearest(Shr(b, s - 1), sticky)

\* A Python float is an IEEE binary64: sign * m * 2^(-k) with a significand
\* m of at most SignificandBits bits; every operation rounds its exact
\* result to the nearest such number, ties to even.
SignificandBits == 53
Double(sign, m, k) == [sign |-> sign, m |-> m, k |-> k]

Round(sign, bits, k, sticky) ==
    LET b == Strip(bits)
        s == BitLen(b) - SignificandBits
    IN  IF s <= 0 THEN Double(sign, b, k)
        ELSE Double(sign, RoundShift(b, s, sticky), k - s)

\* binary places computed of a decimal before it is rounded: more than
\* SignificandBits significant bits for any nonzero multiple of 1e-6
FloatPlaces == 80

\* the float nearest to the decimal x (in price units)
Float(x) ==
    LET d == DivSmall(Shl(Num(Abs(x)), FloatPlaces), One)
    IN  Round(IF x < 0 THEN -1 ELSE 1, d.q, FloatPlaces, d.r # 0)

\* int * float
FMulInt(p, d) ==
    Round(IF p < 0 THEN -d.sign ELSE d.sign, MulSmall(d.m, Abs(p), 0), d.k, FALSE)

\* float + float, float - float; in AddAligned both significands are
\* at the same binary place k
AddAligned(sa, A, sb, B, k) ==
    Round(IF sa = sb \/ ~Less(A, B) THEN sa ELSE sb,
          IF sa = sb THEN Add(A, B) ELSE IF Less(A, B) THEN Sub(B, A) ELSE Sub(A, B),
          k, FALSE)

FAdd(a, b) ==
    IF a.k > b.k THEN AddAligned(a.sign, a.m, b.sign, Shl(b.m, a.k - b.k), a.k)
    ELSE AddAligned(a.sign, Shl(a.m, b.k - a.k), b.sign, b.m, b.k)

FSub(a, b) == FAdd(a, Double(-b.sign, b.m, b.k))

\* f"{d:.5f}" read back as a price: the multiple of 0.00001 nearest to the
\* float d, ties to even
Format5(d) ==
    LET n == MulSmall(d.m, One \div 10, 0)
        whole == IF d.k <= 0 THEN Shl(n, -d.k) ELSE RoundShift(n, d.k, FALSE)
    IN  d.sign * NumInt(whole) * 10

\* f"{x:.5f}" for the float nearest to the decimal x
Fmt5(x) == Format5(Float(x))

----------------------------------------------------------------------------
(* MACDStrategy.                                                            *)

is_flat(p) == p = None

is_long(p) == p # None /\ p.side = "LONG"

is_short(p) == p # None /\ p.side = "SHORT"

\* go_long without its flat guard
MACDStrategy_go_long_unguarded(p) == <<market("BUY", trade_size)>>

MACDStrategy_go_long(p) ==
    IF is_flat(p) THEN <<market("BUY", trade_size)>> ELSE <<>>

MACDStrategy_go_short(p) ==
    IF is_flat(p) THEN <<market("SELL", trade_size)>> ELSE <<>>

\* check_signals that takes a missing reading for a reading below zero
MACDStrategy_check_signals_noskip(last, p, current_macd) ==
    LET current_above_zero == PyBool(current_macd > 0) IN
    IF last # current_above_zero THEN
        IF current_above_zero = "True" THEN
            IF ~is_long(p)
            THEN (IF is_short(p) THEN <<close_position(p)>> ELSE <<>>)
                 \o MACDStrategy_go_long(p)
            ELSE <<>>
        ELSE
            IF ~is_short(p)
            THEN (IF is_long(p) THEN <<close_position(p)>> ELSE <<>>)
                 \o MACDStrategy_go_short(p)
            ELSE <<>>
    ELSE <<>>

\* check_signals that trades on the side of zero instead of on crossovers
MACDStrategy_check_signals_level(last, p, current_macd) ==
    IF last = NoReading THEN <<>>
    ELSE IF current_macd > 0 THEN
        IF ~is_long(p)
        THEN (IF is_short(p) THEN <<close_position(p)>> ELSE <<>>)
             \o MACDStrategy_go_long(p)
        ELSE <<>>
    ELSE
        IF ~is_short(p)
        THEN (IF is_long(p) THEN <<close_position(p)>> ELSE <<>>)
             \o MACDStrategy_go_short(p)
        ELSE <<>>

\* the requests check_signals issues, given the recorded reading, the
\* recorded position and the current MACD value
MACDStrategy_check_signals(last, p, current_macd) ==
    LET current_above_zero == PyBool(current_macd > 0) IN
    IF last = NoReading THEN <<>>
    ELSE IF last # current_above_zero THEN
        IF current_above_zero = "True" THEN
            IF ~is_long(p)
            THEN (IF is_short(p) THEN <<close_position(p)>> ELSE <<>>)
                 \o MACDStrategy_go_long(p)
            ELSE <<>>
        ELSE
            IF ~is_short(p)
            THEN (IF is_long(p) THEN <<close_position(p)>> ELSE <<>>)
                 \o MACDStrategy_go_short(p)
            ELSE <<>>
    ELSE <<>>

\* check_signals that keeps the first reading it recorded
MACDStrategy_recorded_first(last, current_macd) ==
    IF last = NoReading THEN PyBool(current_macd > 0) ELSE last

\* last_macd_above_zero after check_signals
MACDStrategy_recorded(last, current_macd) == PyBool(current_macd > 0)

----------------------------------------------------------------------------
(* MACDEnhancedStrategy.                                                    *)

MACDEnhancedStrategy_go_long(p) ==
    IF p # None THEN <<>> ELSE <<market("BUY", trade_size)>>

MACDEnhancedStrategy_go_short(p) ==
    IF p # None THEN <<>> ELSE <<market("SELL", trade_size)>>

current_sign(current_macd) == IF current_macd > 0 THEN 1 ELSE -1

\* check_signals and its entries without the open-position guards
MACDEnhancedStrategy_check_signals_unguarded(last, p, current_macd) ==
    IF last # 0 /\ last # current_sign(current_macd) THEN
        IF current_sign(current_macd) > 0
        THEN <<market("BUY", trade_size)>>
        ELSE <<market("SELL", trade_size)>>
    ELSE IF current_macd > entry_threshold THEN <<market("BUY", trade_size)>>
    ELSE IF current_macd < -entry_threshold THEN <<market("SELL", trade_size)>>
    ELSE <<>>

\* check_signals without the crossover entry
MACDEnhancedStrategy_check_signals_nocross(last, p, current_macd) ==
    IF p # None THEN <<>>
    ELSE IF current_macd > entry_threshold THEN MACDEnhancedStrategy_go_long(p)
    ELSE IF current_macd < -entry_threshold THEN MACDEnhancedStrategy_go_short(p)
    ELSE <<>>

\* the requests check_signals issues
MACDEnhancedStrategy_check_signals(last, p, current_macd) ==
    IF p # None THEN <<>>
    ELSE IF last # 0 /\ last # current_sign(current_macd) THEN
        IF current_sign(current_macd) > 0
        THEN MACDEnhancedStrategy_go_long(p)
        ELSE MACDEnhancedStrategy_go_short(p)
    ELSE IF Abs(current_macd) > entry_threshold THEN
        IF current_macd > entry_threshold THEN MACDEnhancedStrategy_go_long(p)
        ELSE IF current_macd < -entry_threshold THEN MACDEnhancedStrategy_go_short(p)
        ELSE <<>>
    ELSE <<>>

\* last_macd_sign after check_signals: the early return on an open position
\* leaves it as it was
MACDEnhancedStrategy_recorded(last, p, current_macd) ==
    IF p # None THEN last ELSE current_sign(current_macd)

\* place_exit_orders that prices a short like a long
place_exit_orders_unmirrored(p, avg_px_open) ==
    IF p = None THEN <<>>
    ELSE LET entry_price == Float(avg_px_open)
             stop_price == FSub(entry_price, FMulInt(stop_loss_pips, Float(pip_value)))
             target_price == FAdd(entry_price, FMulInt(take_profit_pips, Float(pip_value)))
             side == IF p.side = "LONG" THEN "SELL" ELSE "BUY"
         IN  << stop_market(side, trade_size, Format5(stop_price)),
                limit(side, trade_size, Format5(target_price)) >>

\* place_exit_orders for the position p opened at avg_px_open
place_exit_orders(p, avg_px_open) ==
    IF p = None THEN <<>>
    ELSE LET entry_price == Float(avg_px_open)
         IN  IF p.side = "LONG" THEN
                 LET stop_price == FSub(entry_price, FMulInt(stop_loss_pips, Float(pip_value)))
                     target_price == FAdd(entry_price, FMulInt(take_profit_pips, Float(pip_value)))
                 IN  << stop_market("SELL", trade_size, Format5(stop_price)),
                        limit("SELL", trade_size, Format5(target_price)) >>
             ELSE
                 LET stop_price == FAdd(entry_price, FMulInt(stop_loss_pips, Float(pip_value)))
                     target_price == FSub(entry_price, FMulInt(take_profit_pips, Float(pip_value)))
                 IN  << stop_market("BUY", trade_size, Format5(stop_price)),
                        limit("BUY", trade_size, Format5(target_price)) >>

----------------------------------------------------------------------------
(* on_event: both classes branch on PositionOpened / PositionClosed and    *)
(* ignore every other event.                                               *)

Event(kind, position_id, side, avg_px_open) ==
    [kind |-> kind, position_id |-> position_id, side |-> side,
     avg_px_open |-> avg_px_open]

QuoteTick == Event("QuoteTick", 0, "NONE", 0)

\* self.cache.position(event.position_id) while handling PositionOpened
cache_position(event) == [id |-> event.position_id, side |-> event.side]

\* self.position after on_event (the same in both classes)
on_event_position(p, event) ==
    IF event.kind = "PositionOpened" THEN cache_position(event)
    ELSE IF event.kind = "PositionClosed" THEN
        IF p # None /\ p.id = event.position_id THEN None ELSE p
    ELSE p

\* on_event that submits a new entry when an order is rejected
MACDStrategy_on_event_retry(p, event) ==
    IF event.kind = "OrderRejected" THEN <<market("BUY", trade_size)>> ELSE <<>>

\* MACDStrategy.on_event issues nothing
MACDStrategy_on_event(p, event) == <<>>

\* on_event that leaves the exit orders working after the close
MACDEnhancedStrategy_on_event_nocancel(p, event) ==
    IF event.kind = "PositionOpened"
    THEN place_exit_orders(cache_position(event), event.avg_px_open)
    ELSE <<>>

\* on_event that cancels on any PositionClosed, whatever its position id
MACDEnhancedStrategy_on_event_anyclose(p, event) ==
    IF event.kind = "PositionOpened"
    THEN place_exit_orders(cache_position(event), event.avg_px_open)
    ELSE IF event.kind = "PositionClosed" THEN <<cancel_all_orders>>
    ELSE <<>>

\* MACDEnhancedStrategy.on_event: exit orders on open, cancel on close
MACDEnhancedStrategy_on_event(p, event) ==
    IF event.kind = "PositionOpened"
    THEN place_exit_orders(cache_position(event), event.avg_px_open)
    ELSE IF event.kind = "PositionClosed" THEN
        IF p # None /\ p.id = event.position_id THEN <<cancel_all_orders>> ELSE <<>>
    ELSE <<>>

on_event_requests(p, event) ==
    IF variant = "simple" THEN MACDStrategy_on_event(p, event)
    ELSE MACDEnhancedStrategy_on_event(p, event)

----------------------------------------------------------------------------
(* The indicator: initialized once it has handled max(fast, slow) quotes.  *)

Max(a, b) == IF a > b THEN a ELSE b
Min(a, b) == IF a < b THEN a ELSE b

WarmUp == Max(fast_period, slow_period)

initialized(count) == count >= WarmUp

\* the model stops counting quotes one past the first initialized reading
CountCap == WarmUp + 1

----------------------------------------------------------------------------
\* MovingAverageConvergenceDivergence(fast_period, slow_period) accepts the
\* periods
IndicatorAccepts(c) == c.slow_period > c.fast_period

\* the fields every construction starts from
Constructed ==
    /\ macd_count = 0
    /\ macd_value = 0
    /\ position = None
    /\ last_macd_above_zero = NoReading
    /\ last_macd_sign = 0
    /\ last_call = Event("init", 0, "NONE", 0)
    /\ out = <<>>
    /\ inflight = <<>>
    /\ resting = <<>>
    /\ venue = NoVenuePosition
    /\ script_pos = 0
    /\ log = <<>>

Init ==
    /\ variant \in {"simple", "enhanced"}
    /\ config = default_config
    /\ state = "READY"
    /\ Constructed

\* self.macd.handle_quote_tick(tick)
handle_quote_tick(v) ==
    /\ macd_count' = Min(macd_count + 1, CountCap)
    /\ macd_value' = v

ForVenue(r) == r.kind \notin {"SUBSCRIBE", "UNSUBSCRIBE"}

\* the strategy hands `requests` to the execution layer behind `queue`
Submit(queue, requests) ==
    /\ out' = requests
    /\ inflight' = queue \o SelectSeq(requests, ForVenue)
    /\ Len(inflight') <= MaxInflight

MACDStrategy_on_quote_tick(v) ==
    /\ variant = "simple"
    /\ handle_quote_tick(v)
    /\ last_call' = QuoteTick
    /\ IF ~initialized(macd_count')
       THEN /\ Submit(inflight, <<>>)
            /\ UNCHANGED last_macd_above_zero
       ELSE /\ Submit(inflight,
                      MACDStrategy_check_signals(last_macd_above_zero, position, v))
            /\ last_macd_above_zero' = MACDStrategy_recorded(last_macd_above_zero, v)
    /\ UNCHANGED <<variant, config, state, position, last_macd_sign, resting, venue>>

\* on_quote_tick that does not wait for the indicator
MACDEnhancedStrategy_on_quote_tick_nowait(v) ==
    /\ variant = "enhanced"
    /\ handle_quote_tick(v)
    /\ last_call' = QuoteTick
    /\ Submit(inflight, MACDEnhancedStrategy_check_signals(last_macd_sign, position, v))
    /\ last_macd_sign' = MACDEnhancedStrategy_recorded(last_macd_sign, position, v)
    /\ UNCHANGED <<variant, config, state, position, last_macd_above_zero, resting, venue>>

MACDEnhancedStrategy_on_quote_tick(v) ==
    /\ variant = "enhanced"
    /\ handle_quote_tick(v)
    /\ last_call' = QuoteTick
    /\ IF ~initialized(macd_count')
       THEN /\ Submit(inflight, <<>>)
            /\ UNCHANGED last_macd_sign
       ELSE /\ Submit(inflight,
                      MACDEnhancedStrategy_check_signals(last_macd_sign, position, v))
            /\ last_macd_sign' = MACDEnhancedStrategy_recorded(last_macd_sign, position, v)
    /\ UNCHANGED <<variant, config, state, position, last_macd_above_zero, resting, venue>>

\* the fields on_start and on_stop leave alone
LifecycleFrame ==
    UNCHANGED <<variant, config, macd_count, macd_value, position, last_macd_above_zero,
                last_macd_sign, resting, venue>>

MACDStrategy_on_start ==
    /\ variant = "simple"
    /\ state = "READY"
    /\ state' = "RUNNING"
    /\ last_call' = Event("Start", 0, "NONE", 0)
    /\ Submit(inflight, <<subscribe_quote_ticks>>)
    /\ LifecycleFrame

MACDEnhancedStrategy_on_start ==
    /\ variant = "enhanced"
    /\ state = "READY"
    /\ state' = "RUNNING"
    /\ last_call' = Event("Start", 0, "NONE", 0)
    /\ Submit(inflight, <<subscribe_quote_ticks>>)
    /\ LifecycleFrame

\* on_stop that also clears what the strategy recorded
MACDStrategy_on_stop_reset ==
    /\ variant = "simple"
    /\ state = "RUNNING"
    /\ state' = "STOPPED"
    /\ last_call' = Event("Stop", 0, "NONE", 0)
    /\ Submit(inflight, <<close_all_positions, unsubscribe_quote_ticks>>)
    /\ position' = None
    /\ last_macd_above_zero' = NoReading
    /\ UNCHANGED <<variant, config, macd_count, macd_value, last_macd_sign, resting, venue>>

MACDStrategy_on_stop ==
    /\ variant = "simple"
    /\ state = "RUNNING"
    /\ state' = "STOPPED"
    /\ last_call' = Event("Stop", 0, "NONE", 0)
    /\ Submit(inflight, <<close_all_positions, unsubscribe_quote_ticks>>)
    /\ LifecycleFrame

MACDEnhancedStrategy_on_stop ==
    /\ variant = "enhanced"
    /\ state = "RUNNING"
    /\ state' = "STOPPED"
    /\ last_call' = Event("Stop", 0, "NONE", 0)
    /\ Submit(inflight, <<cancel_all_orders, close_all_positions, unsubscribe_quote_ticks>>)
    /\ LifecycleFrame

----------------------------------------------------------------------------
(* The execution layer (venue of backtest.py: one netted position per      *)
(* instrument).  Every step of it ends in a call of on_event.              *)

\* on_event(event), with `queue` the commands still in flight
Callback(event, queue) ==
    /\ last_call' = event
    /\ position' = on_event_position(position, event)
    /\ Submit(queue, on_event_requests(position, event))
    /\ UNCHANGED <<variant, config, state, macd_count, macd_value, last_macd_above_zero,
                   last_macd_sign>>

PositionSideOf(order_side) == IF order_side = "BUY" THEN "LONG" ELSE "SHORT"

\* a fill of `quantity` on `order_side`: the venue position nets it and the
\* strategy is told what became of the position
Fill(order_side, quantity, queue) ==
    IF venue = NoVenuePosition THEN
        \E id \in PositionIds, px \in EntryPrices :
            /\ venue' = [id |-> id, side |-> PositionSideOf(order_side), quantity |-> quantity]
            /\ Callback(Event("PositionOpened", id, PositionSideOf(order_side), px), queue)
    ELSE IF venue.side = PositionSideOf(order_side) THEN
        /\ venue.quantity + quantity <= MaxLots * trade_size
        /\ venue' = [venue EXCEPT !.quantity = @ + quantity]
        /\ Callback(Event("PositionChanged", venue.id, venue.side, 0), queue)
    ELSE IF quantity < venue.quantity THEN
        /\ venue' = [venue EXCEPT !.quantity = @ - quantity]
        /\ Callback(Event("PositionChanged", venue.id, venue.side, 0), queue)
    ELSE
        /\ quantity = venue.quantity
        /\ venue' = NoVenuePosition
        /\ Callback(Event("PositionClosed", venue.id, venue.side, 0), queue)

\* the market order at the head of the queue fills
VenueFillMarket ==
    /\ inflight # <<>>
    /\ Head(inflight).kind = "MARKET"
    /\ Fill(Head(inflight).side, Head(inflight).quantity, Tail(inflight))
    /\ UNCHANGED resting

\* a close_position request: a market order for the whole position, against
\* the position it names, if that position is still open
VenueClosePosition ==
    /\ inflight # <<>>
    /\ Head(inflight).kind \in {"CLOSE_POSITION", "CLOSE_ALL_POSITIONS"}
    /\ IF venue # NoVenuePosition /\ venue.id = Head(inflight).position_id
       THEN /\ venue' = NoVenuePosition
            /\ Callback(Event("PositionClosed", venue.id, venue.side, 0), Tail(inflight))
       ELSE /\ venue' = venue
            /\ Callback(Event("OrderDenied", 0, "NONE", 0), Tail(inflight))
    /\ UNCHANGED resting

\* the order at the head of the queue is rejected
VenueReject ==
    /\ inflight # <<>>
    /\ Head(inflight).kind \in {"MARKET", "STOP_MARKET", "LIMIT"}
    /\ Callback(Event("OrderRejected", 0, "NONE", 0), Tail(inflight))
    /\ UNCHANGED <<resting, venue>>

\* a stop or limit order is accepted and works at the venue
VenueAccept ==
    /\ inflight # <<>>
    /\ Head(inflight).kind \in {"STOP_MARKET", "LIMIT"}
    /\ resting' = Append(resting, Head(inflight))
    /\ Callback(Event("OrderAccepted", 0, "NONE", 0), Tail(inflight))
    /\ UNCHANGED venue

\* cancel_all_orders takes every working order off the venue
VenueCancelAll ==
    /\ inflight # <<>>
    /\ Head(inflight).kind = "CANCEL_ALL"
    /\ resting' = <<>>
    /\ Callback(Event("OrderCanceled", 0, "NONE", 0), Tail(inflight))
    /\ UNCHANGED venue

Remove(seq, i) == SubSeq(seq, 1, i - 1) \o SubSeq(seq, i + 1, Len(seq))

\* the market reaches a working stop or limit order and it fills
VenueTrigger ==
    \E i \in 1..Len(resting) :
        /\ resting' = Remove(resting, i)
        /\ Fill(resting[i].side, resting[i].quantity, inflight)

\* a PositionClosed for a position that is not the instrument's open one
VenueStrayClosed ==
    \E id \in PositionIds :
        /\ id # venue.id
        /\ Callback(Event("PositionClosed", id, "NONE", 0), inflight)
        /\ UNCHANGED <<resting, venue>>

Unscripted == UNCHANGED <<script_pos, log>>

\* quotes are delivered between subscribe (on_start) and unsubscribe (on_stop)
Subscribed == state = "RUNNING"

SimpleStart == MACDStrategy_on_start /\ Unscripted
EnhancedStart == MACDEnhancedStrategy_on_start /\ Unscripted
SimpleStop == MACDStrategy_on_stop /\ Unscripted
EnhancedStop == MACDEnhancedStrategy_on_stop /\ Unscripted
SimpleQuote ==
    Subscribed /\ \E v \in MacdValues : MACDStrategy_on_quote_tick(v) /\ Unscripted
EnhancedQuote ==
    Subscribed /\ \E v \in MacdValues : MACDEnhancedStrategy_on_quote_tick(v) /\ Unscripted
FillMarket == VenueFillMarket /\ Unscripted
ClosePosition == VenueClosePosition /\ Unscripted
Reject == VenueReject /\ Unscripted
Accept == VenueAccept /\ Unscripted
CancelAll == VenueCancelAll /\ Unscripted
Trigger == VenueTrigger /\ Unscripted
StrayClosed == VenueStrayClosed /\ Unscripted

Next ==
    \/ SimpleStart
    \/ EnhancedStart
    \/ SimpleStop
    \/ EnhancedStop
    \/ SimpleQuote
    \/ EnhancedQuote
    \/ FillMarket
    \/ ClosePosition
    \/ Reject
    \/ Accept
    \/ CancelAll
    \/ Trigger
    \/ StrayClosed

Spec == Init /\ [][Next]_vars

----------------------------------------------------------------------------
(* Construction with any of the configurations: the strategy classes check *)
(* nothing themselves; the indicator they construct refuses periods that   *)
(* are not fast < slow.  MACDConfig has no stop_loss_pips.                 *)

Configs ==
    {[fast_period |-> f, slow_period |-> default_config.slow_period, stop_loss_pips |-> s] :
        f \in FastPeriods, s \in StopLossPips}

InitConfig ==
    /\ variant \in {"simple", "enhanced"}
    /\ config \in Configs
    /\ variant = "simple" => config.stop_loss_pips = default_config.stop_loss_pips
    /\ state = IF IndicatorAccepts(config) THEN "READY" ELSE "FAILED"
    /\ Constructed

SpecConfig == InitConfig /\ [][Next]_vars

----------------------------------------------------------------------------
(* A scripted run of MACDStrategy: the indicator warms up on any quotes,   *)
(* then the values of ReversalInputs arrive in order, and every submitted  *)
(* order is filled (and the strategy notified) before the next quote.      *)

ReversalInputs == <<100000, 200000, -100000, -200000, 100000>>

InitReversal == Init /\ variant = "simple"

ScriptWarmUp ==
    /\ Subscribed
    /\ macd_count < WarmUp - 1
    /\ \E v \in MacdValues : MACDStrategy_on_quote_tick(v)
    /\ Unscripted

ScriptQuote ==
    /\ Subscribed
    /\ macd_count >= WarmUp - 1
    /\ inflight = <<>>
    /\ script_pos < Len(ReversalInputs)
    /\ MACDStrategy_on_quote_tick(ReversalInputs[script_pos + 1])
    /\ script_pos' = script_pos + 1
    /\ log' = Append(log, out')

NextReversal ==
    \/ SimpleStart
    \/ ScriptWarmUp
    \/ ScriptQuote
    \/ FillMarket
    \/ ClosePosition

SpecReversal == InitReversal /\ [][NextReversal]_vars

----------------------------------------------------------------------------
(* Properties.                                                             *)

\* the step is a call of on_quote_tick
IsQuote == last_call'.kind = "QuoteTick"

Kinds(requests) == {requests[i].kind : i \in 1..Len(requests)}

\* C1: at most one position is open at any time: the venue never holds more
\* than one trade_size for the instrument (no pyramiding).
AtMostOnePosition == venue.quantity <= trade_size

\* C2: a quote handled while the indicator is not initialized issues no
\* request and leaves the recorded reading and sign alone; and as long as the
\* indicator has not been initialized nothing is held or recorded and no
\* order is in flight (on_stop's cancel / close requests aside).
WarmUpIsSilent ==
    /\ [](~initialized(macd_count) =>
            /\ position = None
            /\ venue = NoVenuePosition
            /\ Kinds(inflight) \subseteq {"CANCEL_ALL", "CLOSE_ALL_POSITIONS"}
            /\ resting = <<>>)
    /\ [][IsQuote /\ ~initialized(macd_count') =>
            /\ out' = <<>>
            /\ last_macd_above_zero' = last_macd_above_zero
            /\ last_macd_sign' = last_macd_sign]_vars

\* C2 witness: the last quote of the warm-up carried a value beyond the
\* entry threshold, under the enhanced strategy.
WarmUpWitness ==
    /\ variant = "enhanced"
    /\ last_call.kind = "QuoteTick"
    /\ macd_count = WarmUp - 1
    /\ macd_value = 60

\* C3: MACDStrategy's first initialized reading issues no request and only
\* records above_zero = (value > 0).
FirstReadingIsSilent ==
    [][/\ variant = "simple"
       /\ IsQuote
       /\ ~initialized(macd_count)
       /\ initialized(macd_count')
       => /\ out' = <<>>
          /\ last_macd_above_zero' = PyBool(macd_value' > 0)]_vars

\* C3 witness: exactly the first initialized reading has been handled, and
\* it was above zero.
FirstReadingWitness ==
    /\ variant = "simple"
    /\ last_call.kind = "QuoteTick"
    /\ macd_count = WarmUp
    /\ macd_value = 60
    /\ last_macd_above_zero = "True"

\* C4: the scripted values [0.1, 0.2, -0.1, -0.2, 0.1] give, per quote: no
\* request, no request, open-short, no request, then close-short followed
\* by open-long.
ReversalTrace ==
    script_pos = Len(ReversalInputs) =>
        /\ SubSeq(log, 1, 4) = << <<>>, <<>>, <<market("SELL", trade_size)>>, <<>> >>
        /\ Len(log[5]) = 2
        /\ log[5][1].kind = "CLOSE_POSITION"
        /\ log[5][2] = market("BUY", trade_size)

\* C5: MACDEnhancedStrategy issues no request on a quote handled while a
\* position is recorded, whatever the value.
NoEntryWhileOpen ==
    [][variant = "enhanced" /\ IsQuote /\ position # None => out' = <<>>]_vars

\* C5 witness: a quote beyond the threshold and across zero from the
\* recorded sign was handled while a position is recorded.
NoEntryWhileOpenWitness ==
    /\ variant = "enhanced"
    /\ last_call.kind = "QuoteTick"
    /\ position # None
    /\ last_macd_sign = 1
    /\ macd_value = -60
    /\ out = <<>>

\* C6: after every check_signals call of MACDEnhancedStrategy on an
\* initialized indicator, last_macd_sign is the sign of the current value.
SignRecordedEveryCall ==
    variant = "enhanced" /\ last_call.kind = "QuoteTick" /\ initialized(macd_count)
        => last_macd_sign = (IF macd_value > 0 THEN 1 ELSE -1)

\* C7: MACDEnhancedStrategy's entries when flat: a recorded sign that
\* differs from the current one gives one market order in the direction of
\* the new sign; otherwise a value beyond entry_threshold gives one market
\* order in the direction of the sign; otherwise nothing.
EntryTable ==
    [][/\ variant = "enhanced"
       /\ IsQuote
       /\ initialized(macd_count')
       /\ position = None
       => LET sign == IF macd_value' > 0 THEN 1 ELSE -1
              entry == <<market(IF sign = 1 THEN "BUY" ELSE "SELL", trade_size)>>
          IN  out' = IF last_macd_sign # 0 /\ last_macd_sign # sign THEN entry
                     ELSE IF macd_value' > entry_threshold
                             \/ -macd_value' > entry_threshold THEN entry
                     ELSE <<>>]_vars

\* C7 witness: flat, with sign +1 recorded, a value of exactly 0 was handled
\* and a short entry issued (0 counts as negative).
EntryTableWitness ==
    /\ variant = "enhanced"
    /\ last_call.kind = "QuoteTick"
    /\ initialized(macd_count)
    /\ position = None
    /\ macd_value = 0
    /\ out = <<market("SELL", trade_size)>>

\* C8: handling PositionOpened, MACDEnhancedStrategy issues exactly a
\* stop-market and a limit order, of trade_size, on the side opposite to the
\* position, the stop stop_loss_pips on the loss side of the entry price and
\* the limit take_profit_pips on the profit side.
ExitOrdersOnOpen ==
    variant = "enhanced" /\ last_call.kind = "PositionOpened" =>
        LET entry == last_call.avg_px_open
            long == last_call.side = "LONG"
            side == IF long THEN "SELL" ELSE "BUY"
            loss == stop_loss_pips * pip_value
            profit == take_profit_pips * pip_value
        IN  /\ Len(out) = 2
            /\ out[1] = [kind |-> "STOP_MARKET", side |-> side, quantity |-> trade_size,
                         price |-> IF long THEN entry - loss ELSE entry + loss,
                         position_id |-> 0]
            /\ out[2] = [kind |-> "LIMIT", side |-> side, quantity |-> trade_size,
                         price |-> IF long THEN entry + profit ELSE entry - profit,
                         position_id |-> 0]

\* C8 witness: the opening of a short position has been handled.
ExitOrdersWitness ==
    /\ variant = "enhanced"
    /\ last_call.kind = "PositionOpened"
    /\ last_call.side = "SHORT"
    /\ position.side = "SHORT"

\* a quote with value v carries an entry signal for MACDEnhancedStrategy
EntrySignal(v) ==
    \/ last_macd_sign # 0 /\ last_macd_sign # (IF v > 0 THEN 1 ELSE -1)
    \/ v > entry_threshold
    \/ -v > entry_threshold

\* C9: handling the PositionClosed of the recorded position,
\* MACDEnhancedStrategy issues cancel_all_orders exactly once and records no
\* position; a quote that follows with an entry signal issues an entry.
CloseCancelsAndReenables ==
    /\ [][/\ variant = "enhanced"
          /\ last_call'.kind = "PositionClosed"
          /\ position # None
          /\ position.id = last_call'.position_id
          => /\ out' = <<cancel_all_orders>>
             /\ position' = None]_vars
    /\ [][/\ variant = "enhanced"
          /\ last_call.kind = "PositionClosed"
          /\ out = <<cancel_all_orders>>
          /\ position = None
          /\ IsQuote
          /\ EntrySignal(macd_value')
          => /\ Len(out') = 1
             /\ out'[1].kind = "MARKET"]_vars

\* C9 witness: the close was handled (its one cancel is still in flight) and
\* the next quote issued an entry behind it.
CloseWitness ==
    /\ variant = "enhanced"
    /\ last_call.kind = "QuoteTick"
    /\ position = None
    /\ Len(inflight) = 2
    /\ inflight[1] = cancel_all_orders
    /\ inflight[2].kind = "MARKET"
    /\ out = <<inflight[2]>>

\* C10: MACDStrategy submits a market entry only while no position is
\* recorded; a call that requests the close of a position submits no entry.
EntryOnlyWhenFlat ==
    [][/\ variant = "simple"
       /\ IsQuote
       /\ "MARKET" \in Kinds(out')
       => /\ position = None
          /\ "CLOSE_POSITION" \notin Kinds(out')]_vars

\* C10 witness: a crossover was handled against a recorded opposing
\* position: its close was requested and no entry was submitted.
EntryOnlyWhenFlatWitness ==
    /\ variant = "simple"
    /\ last_call.kind = "QuoteTick"
    /\ position # None
    /\ out = <<close_position(position)>>

\* C11: MACDStrategy issues a request on a quote only on a crossover: a
\* reading is recorded and above_zero = (value > 0) differs from it, and the
\* crossover is not into the direction of the position already held.
OnlyOnCrossover ==
    [][/\ variant = "simple"
       /\ IsQuote
       /\ out' # <<>>
       => /\ initialized(macd_count')
          /\ last_macd_above_zero # NoReading
          /\ last_macd_above_zero # PyBool(macd_value' > 0)
          /\ ~(macd_value' > 0 /\ is_long(position))
          /\ ~(~(macd_value' > 0) /\ is_short(position))]_vars

\* C11 witness: a crossover to exactly 0 was handled while flat and opened a
\* short (0 is not above zero).
OnlyOnCrossoverWitness ==
    /\ variant = "simple"
    /\ last_call.kind = "QuoteTick"
    /\ macd_value = 0
    /\ out = <<market("SELL", trade_size)>>

\* C12: after every check_signals call of MACDStrategy on an initialized
\* indicator, last_macd_above_zero is (current value > 0).
ReadingRecordedEveryCall ==
    variant = "simple" /\ last_call.kind = "QuoteTick" /\ initialized(macd_count)
        => last_macd_above_zero = (IF macd_value > 0 THEN "True" ELSE "False")

\* C12 witness: a quote below zero was handled while a short position is
\* recorded, and nothing was issued.
ReadingRecordedWitness ==
    /\ variant = "simple"
    /\ last_call.kind = "QuoteTick"
    /\ is_short(position)
    /\ macd_value = -10
    /\ out = <<>>
    /\ last_macd_above_zero = "False"

\* a quote with value v carries an entry signal for the running strategy
Signal(v) ==
    IF variant = "simple"
    THEN last_macd_above_zero # NoReading /\ last_macd_above_zero # PyBool(v > 0)
    ELSE EntrySignal(v)

\* C13: handling the rejection of an order changes no recorded position
\* and issues nothing (no retry); a quote that follows while flat with an
\* entry signal issues an entry.
RejectionLeavesFlat ==
    /\ [][last_call'.kind = "OrderRejected" =>
            /\ out' = <<>>
            /\ position' = position]_vars
    /\ [][/\ last_call.kind = "OrderRejected"
          /\ position = None
          /\ IsQuote
          /\ Signal(macd_value')
          => /\ Len(out') = 1
             /\ out'[1].kind = "MARKET"]_vars

\* C13 witness: the only order in flight, an entry, was rejected: nothing is
\* held, recorded, working or in flight.
RejectionWitness ==
    /\ last_call.kind = "OrderRejected"
    /\ position = None
    /\ venue = NoVenuePosition
    /\ resting = <<>>
    /\ inflight = <<>>
    /\ out = <<>>

\* C16: MACDEnhancedStrategy never has two entry market orders in flight.
OneEntryInFlight ==
    variant = "enhanced" =>
        Cardinality({i \in 1..Len(inflight) : inflight[i].kind = "MARKET"}) <= 1

\* C17: a PositionClosed whose position id is not the recorded position's,
\* or that arrives while no position is recorded, changes neither the
\* recorded position nor the recorded reading / sign and issues nothing.
StrayCloseIgnored ==
    [][/\ last_call'.kind = "PositionClosed"
       /\ (position = None \/ position.id # last_call'.position_id)
       => /\ out' = <<>>
          /\ position' = position
          /\ last_macd_above_zero' = last_macd_above_zero
          /\ last_macd_sign' = last_macd_sign]_vars

\* C17 witness: MACDEnhancedStrategy handled a PositionClosed for another
\* position id while its own position is recorded and its exit orders work.
StrayCloseWitness ==
    /\ variant = "enhanced"
    /\ last_call.kind = "PositionClosed"
    /\ position # None
    /\ position.id # last_call.position_id
    /\ Len(resting) = 2
    /\ out = <<>>

\* C14 (as claimed): once the strategy has stopped, the recorded reading /
\* sign is back to its initial value and no position is recorded.
StoppedIsReset ==
    state = "STOPPED" =>
        /\ last_macd_above_zero = NoReading
        /\ last_macd_sign = 0
        /\ position = None

\* C14 (amended): on_stop leaves the recorded reading / sign and the
\* recorded position as they were; it only requests close_all_positions and
\* unsubscribes (MACDEnhancedStrategy: after cancel_all_orders).
StopLeavesState ==
    [][last_call'.kind = "Stop" =>
        /\ position' = position
        /\ last_macd_above_zero' = last_macd_above_zero
        /\ last_macd_sign' = last_macd_sign
        /\ [i \in 1..Len(out') |-> out'[i].kind] =
               IF variant = "simple"
               THEN <<"CLOSE_ALL_POSITIONS", "UNSUBSCRIBE">>
               ELSE <<"CANCEL_ALL", "CLOSE_ALL_POSITIONS", "UNSUBSCRIBE">>]_vars

\* C14 witness: on_stop has just run on a strategy that records a position
\* and a reading / sign, and it still records them.
StopWitness ==
    /\ state = "STOPPED"
    /\ last_call.kind = "Stop"
    /\ position # None
    /\ (last_macd_above_zero # NoReading \/ last_macd_sign # 0)

\* C15: a configuration with stop_loss_pips <= 0 or fast_period >=
\* slow_period fails at construction, so no run handles anything with it.
ConfigValidated ==
    (variant = "enhanced" /\ config.stop_loss_pips <= 0)
        \/ config.fast_period >= config.slow_period
    => state = "FAILED"

=============================================================================
